---- MODULE Spec2Model ----
(***************************************************************************)
(* A model of the file routes of the drive backend (src/routes/files.js)  *)
(* over the File collection (src/unnamed/part_003) and the blob bucket    *)
(* (src/unnamed/part_001).                                                 *)
(*                                                                         *)
(* Every request is handled by one of the request slots of procs.  The    *)
(* action that starts a request runs the handler's synchronous prefix and *)
(* its first awaited store call; every later awaited call of the handler  *)
(* is one action of its own, so that the calls of two requests interleave *)
(* exactly where the code awaits.  The response is written together with  *)
(* the last awaited call.                                                  *)
(*                                                                         *)
(* Names and paths are sequences of one-character strings, so that trim() *)
(* and the path templates are computed, not assumed.                       *)
(***************************************************************************)
EXTENDS Naturals, Sequences, FiniteSets, TLC

\* ------------------------------------------------------------------ bounds
\* Number of record ids that are ever allocated (ObjectIds are never reused):
\* in the specification of all routes, and in those of the tree's lifecycle.
MaxFilesAll == 2
MaxFiles == 3
\* Number of share tokens that are ever drawn: in the specification of all
\* routes, and in that of the overlapping save() routes.
MaxTokens == 1
MaxTokensShare == 2
\* Number of password reset tokens that are ever drawn.
MaxResets == 2
\* Number of blob keys that are ever written, likewise.
MaxBlobsAll == 1
MaxBlobs == 2
\* Number of request slots (requests that may be in flight together).
NumProcs == 2

\* --------------------------------------------------------------- constants
\* null: the default of parentFolder, supabasePath, deletedAt and shareToken.
\* Ids, blob keys, tokens and timestamps are positive numbers.
NULL == 0

Users == {"u1", "u2"}
\* The caller of the public route, which runs before the auth middleware.
Anon == "anon"
Tokens == 1..MaxTokens
Procs == 1..NumProcs

\* The emails a request may carry, and the (lower-case) emails of the User
\* collection; NoEmail is a body without email.
NoEmail == "none"
Emails == {"E", "e", "f"}
StoredEmails == {"e", "f"}
\* String.prototype.toLowerCase on these emails.
ToLowerCase(email) == IF email = "E" THEN "e" ELSE email

\* Date.now(): every timestamp is abstracted to one non-null value.
Now == 1

VARIABLES
  files,     \* the File collection: id -> document
  blobs,     \* the bucket: the set of blob keys that hold an object
  nextId,    \* the next ObjectId
  nextTok,   \* the next value of crypto.randomBytes(16)
  nextBlob,  \* the next storage path (userId/timestamp-filename)
  procs,     \* request slots: the position and locals of each request
  pre,       \* history: the stores when the request in flight began
  revoked,   \* history: the tokens that a completed share toggle turned off
  accounts   \* the User collection: stored email -> account

vars ==
  <<files, blobs, nextId, nextTok, nextBlob, procs, pre, revoked, accounts>>

\* ----------------------------------------------------------------- strings
RECURSIVE TrimLeft(_)
TrimLeft(s) == IF s # <<>> /\ Head(s) = " " THEN TrimLeft(Tail(s)) ELSE s

RECURSIVE TrimRight(_)
TrimRight(s) ==
  IF s # <<>> /\ s[Len(s)] = " " THEN TrimRight(SubSeq(s, 1, Len(s) - 1)) ELSE s

\* String.prototype.trim, and the schema's trim: true setter on name.
Trim(s) == TrimRight(TrimLeft(s))

\* `/${name}` and `${parent.path}/${name}`.
RootPath(name) == <<"/">> \o name
ChildPath(parentPath, name) == parentPath \o <<"/">> \o name

\* ------------------------------------------------------------------- store
Min(S) == CHOOSE x \in S : \A y \in S : x <= y

\* A document as File.create stores it: the schema's defaults fill the rest.
NewFile(name, isFolder, path, supabasePath, owner, parentFolder) ==
  [ name         |-> Trim(name),
    isFolder     |-> isFolder,
    path         |-> path,
    supabasePath |-> supabasePath,
    owner        |-> owner,
    parentFolder |-> parentFolder,
    isStarred    |-> FALSE,
    isDeleted    |-> FALSE,
    deletedAt    |-> NULL,
    isShared     |-> FALSE,
    shareToken   |-> NULL ]

\* (mutant) the ownership check passes for every caller.
isOwnedByAnyone(doc, userId) == TRUE

\* this.owner.toString() === userId.toString()
isOwnedBy(doc, userId) == doc.owner = userId

\* findOne returns the first match in natural (insertion) order, or null.
FirstOf(S) == IF S = {} THEN NULL ELSE Min(S)

\* File.findById(id)
FindById(id) == IF id \in DOMAIN files THEN id ELSE NULL

\* File.findOne({ _id, owner })
FindOwned(id, u) ==
  FirstOf({i \in DOMAIN files : i = id /\ files[i].owner = u})

\* File.findOne({ _id, owner, isFolder: true })
FindOwnedFolder(id, u) ==
  FirstOf({i \in DOMAIN files :
             i = id /\ files[i].owner = u /\ files[i].isFolder})

\* (mutant) the duplicate lookup passes over the folders in the trash.
FindExistingLiveFolder(u, name, parentFolder) ==
  FirstOf({i \in DOMAIN files :
             /\ files[i].owner = u
             /\ files[i].name = Trim(name)
             /\ files[i].parentFolder = parentFolder
             /\ files[i].isFolder
             /\ ~files[i].isDeleted})

\* File.findOne({ owner, name: name.trim(), parentFolder, isFolder: true })
FindExistingFolder(u, name, parentFolder) ==
  FirstOf({i \in DOMAIN files :
             /\ files[i].owner = u
             /\ files[i].name = Trim(name)
             /\ files[i].parentFolder = parentFolder
             /\ files[i].isFolder})

\* File.create: the schema's required validator rejects a name that is empty
\* after the trim setter; otherwise the document gets the next id.
CreateValid(name) == Trim(name) # <<>>

Insert(doc) == (nextId :> doc) @@ files

\* ----------------------------------------------------------- request slots
NoDoc == [id |-> NULL]

Idle ==
  [ pc     |-> "idle",   \* idle | done | the next awaited call
    op     |-> "none",
    user   |-> "none",
    id     |-> NULL,     \* :id, or the parentFolder of a create or a listing
    token  |-> NULL,     \* :token, or the token of the share link returned
    view   |-> "none",
    status |-> 0,
    msg    |-> "none",   \* which error the response reports
    out    |-> {},       \* ids of the documents in the response
    url    |-> FALSE,    \* a signed url is in the response
    arch   |-> {},       \* the entries appended to the archive
    skipped |-> {},      \* history: the files whose fetch for the archive failed
    closed |-> FALSE,    \* the consumer has closed the stream of the archive
    failed |-> {},       \* history: the blob keys whose removal failed
    email  |-> NoEmail,  \* req.body.email
    reset  |-> NULL,     \* the reset token the handler has generated
    name   |-> <<>>,     \* req.body.name, or the uploaded file's originalname
    path   |-> <<>>,     \* locals of the handler, from here on
    blob   |-> NULL,
    doc    |-> NoDoc,
    dirty  |-> {},
    stack  |-> <<>> ]

Request(op, u, id) == [Idle EXCEPT !.op = op, !.user = u, !.id = id]

\* res.status(status).json(...): the request is answered and the handler's
\* locals go out of scope.
Respond(r, status, out) ==
  [Idle EXCEPT !.pc = "done", !.op = r.op, !.user = r.user, !.id = r.id,
               !.token = r.token, !.view = r.view, !.url = r.url,
               !.arch = r.arch, !.skipped = r.skipped, !.failed = r.failed,
               !.email = r.email, !.name = r.name,
               !.status = status, !.out = out]

\* An error response: the status and which of the route's messages it has.
Fail(r, status, msg) == [Respond(r, status, {}) EXCEPT !.msg = msg]

Await(r, pc) == [r EXCEPT !.pc = pc]

Set(p, r) == procs' = [procs EXCEPT ![p] = r]

AllIdle == \A q \in Procs : procs[q].pc = "idle"

\* A request takes the lowest free slot.
Free(p) ==
  /\ procs[p].pc = "idle"
  /\ \A q \in Procs : q < p => procs[q].pc # "idle"

\* A request begins.  With alone, requests do not overlap: it begins when no
\* other is in flight, and pre records the stores it finds.
Begin(p, alone) ==
  /\ Free(p)
  /\ alone => AllIdle
  /\ pre' = IF alone THEN [files |-> files, blobs |-> blobs] ELSE pre

\* No history is kept while no request is in flight.
NoPre == [files |-> <<>>, blobs |-> {}]

\* No user with this email, and a registered user.
NoAccount == [exists |-> FALSE, resetToken |-> NULL]
Account == [exists |-> TRUE, resetToken |-> NULL]

\* The File collection and the bucket are empty and no request is in flight.
InitFiles ==
  /\ files = <<>>
  /\ blobs = {}
  /\ nextId = 1
  /\ nextTok = 1
  /\ nextBlob = 1
  /\ procs = [p \in Procs |-> Idle]
  /\ pre = NoPre
  /\ revoked = {}

Init == InitFiles /\ accounts = [e \in StoredEmails |-> NoAccount]

\* Any set of registered users.
InitAuth == InitFiles /\ accounts \in [StoredEmails -> {NoAccount, Account}]

\* ------------------------------------------------------------ POST /folder
\* (mutant) the duplicate check lets a folder in the trash pass.
CfCheckLiveOnly(r) ==
  LET existingFolder == FindExistingFolder(r.user, r.name, r.id) IN
  IF existingFolder # NULL /\ ~files[existingFolder].isDeleted
  THEN Fail(r, 400, "exists")
  ELSE Await(r, "cf_create")

\* The duplicate check and what follows it.
CfCheck(r) ==
  IF FindExistingFolder(r.user, r.name, r.id) # NULL
  THEN Fail(r, 400, "exists")
  ELSE Await(r, "cf_create")

CreateFolder(p, alone, u, name, parentFolder) ==
  /\ Begin(p, alone)
  /\ UNCHANGED <<files, blobs, nextId, nextTok, nextBlob, revoked, accounts>>
  /\ LET r == [Request("createFolder", u, parentFolder) EXCEPT !.name = name] IN
     IF name = <<>> \/ Trim(name) = <<>>
     THEN Set(p, Fail(r, 400, "required"))
     ELSE IF parentFolder # NULL
     THEN LET parent == FindOwnedFolder(parentFolder, u) IN
          IF parent = NULL
          THEN Set(p, Fail(r, 404, "parent"))
          ELSE Set(p, Await([r EXCEPT !.path =
                                ChildPath(files[parent].path, name)],
                            "cf_check"))
     ELSE Set(p, CfCheck([r EXCEPT !.path = RootPath(name)]))

\* (mutant) the document is created before the duplicate check is made.
CreateFolderCheckLate(p) ==
  /\ procs[p].pc = "cf_check"
  /\ LET r == procs[p] IN
     /\ files' = Insert(NewFile(r.name, TRUE, r.path, NULL, r.user, r.id))
     /\ nextId' = nextId + 1
     /\ Set(p, IF FindExistingFolder(r.user, r.name, r.id) # NULL
               THEN Fail(r, 400, "exists")
               ELSE Respond(r, 201, {nextId}))
  /\ UNCHANGED <<blobs, nextTok, nextBlob, pre, revoked, accounts>>

CreateFolderCheck(p) ==
  /\ procs[p].pc = "cf_check"
  /\ Set(p, CfCheck(procs[p]))
  /\ UNCHANGED <<files, blobs, nextId, nextTok, nextBlob, pre, revoked, accounts>>

CreateFolderInsert(p, max) ==
  /\ procs[p].pc = "cf_create"
  /\ nextId <= max
  /\ LET r == procs[p] IN
     /\ files' = Insert(NewFile(r.name, TRUE, r.path, NULL, r.user, r.id))
     /\ nextId' = nextId + 1
     /\ Set(p, Respond(r, 201, {nextId}))
  /\ UNCHANGED <<blobs, nextTok, nextBlob, pre, revoked, accounts>>

\* ------------------------------------------------------------ POST /upload
Upload(p, alone, u, hasFile, name, parentFolder) ==
  /\ Begin(p, alone)
  /\ UNCHANGED <<files, blobs, nextId, nextTok, nextBlob, revoked, accounts>>
  /\ LET r == [Request("upload", u, parentFolder) EXCEPT !.name = name] IN
     IF ~hasFile
     THEN Set(p, Fail(r, 400, "required"))
     ELSE IF parentFolder # NULL
     THEN LET parent == FindOwnedFolder(parentFolder, u) IN
          IF parent = NULL
          THEN Set(p, Fail(r, 404, "parent"))
          ELSE Set(p, Await([r EXCEPT !.path =
                                ChildPath(files[parent].path, name)],
                            "up_put"))
     ELSE Set(p, Await([r EXCEPT !.path = RootPath(name)], "up_put"))

\* (mutant) uploadError is not looked at: the handler goes on to File.create.
UploadPutIgnoringError(p, max) ==
  /\ procs[p].pc = "up_put"
  /\ \E ok \in BOOLEAN :
       IF ok
       THEN /\ nextBlob <= max
            /\ blobs' = blobs \cup {nextBlob}
            /\ nextBlob' = nextBlob + 1
            /\ Set(p, Await([procs[p] EXCEPT !.blob = nextBlob], "up_create"))
       ELSE /\ UNCHANGED <<blobs, nextBlob>>
            /\ Set(p, Await([procs[p] EXCEPT !.blob = nextBlob], "up_create"))
  /\ UNCHANGED <<files, nextId, nextTok, pre, revoked, accounts>>

\* supabase.storage.upload: the object is written under a fresh key, or the
\* call returns an error and the handler answers 500.
UploadPut(p, max) ==
  /\ procs[p].pc = "up_put"
  /\ \E ok \in BOOLEAN :
       IF ok
       THEN /\ nextBlob <= max
            /\ blobs' = blobs \cup {nextBlob}
            /\ nextBlob' = nextBlob + 1
            /\ Set(p, Await([procs[p] EXCEPT !.blob = nextBlob], "up_create"))
       ELSE /\ UNCHANGED <<blobs, nextBlob>>
            /\ Set(p, Fail(procs[p], 500, "storage"))
  /\ UNCHANGED <<files, nextId, nextTok, pre, revoked, accounts>>

\* File.create of the metadata; a name that trims to nothing fails the
\* schema's validation and the catch block answers 500.
UploadCreate(p, max) ==
  /\ procs[p].pc = "up_create"
  /\ LET r == procs[p] IN
     IF CreateValid(r.name)
     THEN /\ nextId <= max
          /\ files' = Insert(NewFile(r.name, FALSE, r.path, r.blob, r.user, r.id))
          /\ nextId' = nextId + 1
          /\ Set(p, Respond(r, 201, {nextId}))
     ELSE /\ UNCHANGED <<files, nextId>>
          /\ Set(p, Fail(r, 500, "error"))
  /\ UNCHANGED <<blobs, nextTok, nextBlob, pre, revoked, accounts>>

\* ------------------------------------------------------------------- GET /
\* (mutant) the default view without the parentFolder condition.
ListQueryAnyParent(u, view, parentFolder) ==
  {i \in DOMAIN files :
     /\ files[i].owner = u
     /\ CASE view = "trash"   -> files[i].isDeleted
          [] view = "starred" -> files[i].isStarred /\ ~files[i].isDeleted
          [] OTHER            -> ~files[i].isDeleted}

\* The query of the three views (no search, type or sort parameter given).
ListQuery(u, view, parentFolder) ==
  {i \in DOMAIN files :
     /\ files[i].owner = u
     /\ CASE view = "trash"   -> files[i].isDeleted
          [] view = "starred" -> files[i].isStarred /\ ~files[i].isDeleted
          [] OTHER            -> /\ ~files[i].isDeleted
                                 /\ files[i].parentFolder = parentFolder}

ListFiles(p, alone, u, view, parentFolder) ==
  /\ Begin(p, alone)
  /\ Set(p, Respond([Request("list", u, parentFolder) EXCEPT !.view = view],
                    200, ListQuery(u, view, parentFolder)))
  /\ UNCHANGED <<files, blobs, nextId, nextTok, nextBlob, revoked, accounts>>

\* ------------------------------------------------------- GET /:id/download
Download(p, alone, u, id) ==
  /\ Begin(p, alone)
  /\ UNCHANGED <<files, blobs, nextId, nextTok, nextBlob, revoked, accounts>>
  /\ LET r == Request("download", u, id)
         file == FindById(id) IN
     IF file = NULL THEN Set(p, Fail(r, 404, "missing"))
     ELSE IF ~isOwnedBy(files[file], u) THEN Set(p, Fail(r, 403, "denied"))
     ELSE IF files[file].isFolder THEN Set(p, Fail(r, 400, "folder"))
     ELSE Set(p, Await([r EXCEPT !.doc = files[file]], "dl_sign"))

\* createSignedUrl: a url for an object of the bucket, or an error.
DownloadSign(p) ==
  /\ procs[p].pc = "dl_sign"
  /\ \E ok \in BOOLEAN :
       /\ ok => procs[p].doc.supabasePath \in blobs
       /\ IF ok
          THEN Set(p, Respond([procs[p] EXCEPT !.url = TRUE], 200, {procs[p].id}))
          ELSE Set(p, Fail(procs[p], 500, "storage"))
  /\ UNCHANGED <<files, blobs, nextId, nextTok, nextBlob, pre, revoked, accounts>>

\* ------------------------------------------------------ GET /shared/:token
\* (mutant) the lookup without the isDeleted filter.
FindSharedInTrash(token) ==
  FirstOf({i \in DOMAIN files :
             files[i].shareToken = token /\ files[i].isShared})

\* File.findOne({ shareToken, isShared: true, isDeleted: false })
FindShared(token) ==
  FirstOf({i \in DOMAIN files :
             /\ files[i].shareToken = token
             /\ files[i].isShared
             /\ ~files[i].isDeleted})

\* The route is mounted before the auth middleware: anyone may call it, and
\* the handler never reads who does.
ResolveShared(p, alone, caller, token) ==
  /\ Begin(p, alone)
  /\ UNCHANGED <<files, blobs, nextId, nextTok, nextBlob, revoked, accounts>>
  /\ LET r == [Request("resolve", caller, NULL) EXCEPT !.token = token]
         file == FindShared(token) IN
     IF file = NULL THEN Set(p, Fail(r, 404, "missing"))
     ELSE IF files[file].isFolder THEN Set(p, Respond(r, 200, {file}))
     ELSE Set(p, Await([r EXCEPT !.doc = files[file], !.out = {file}],
                       "rs_sign"))

\* signedUrl = data?.signedUrl: the answer is 200 with or without the url.
ResolveSign(p) ==
  /\ procs[p].pc = "rs_sign"
  /\ \E ok \in BOOLEAN :
       /\ ok => procs[p].doc.supabasePath \in blobs
       /\ Set(p, Respond([procs[p] EXCEPT !.url = ok], 200, procs[p].out))
  /\ UNCHANGED <<files, blobs, nextId, nextTok, nextBlob, pre, revoked, accounts>>

\* ------------------------------------------------- document.save() routes
\* The paths of a loaded document that an assignment has changed.
Modified(old, new) == {f \in DOMAIN old : old[f] # new[f]}

Load(r, doc, dirty) == Await([r EXCEPT !.doc = doc, !.dirty = dirty], "save")

\* (mutant) the update drops the paths whose new value is false or null.
SaveDocTruthy(id, doc, dirty) ==
  [files EXCEPT ![id] =
     [f \in DOMAIN files[id] |->
        IF /\ f \in dirty
           /\ f \in {"isStarred", "isDeleted", "isShared"} => doc[f]
           /\ f \in {"deletedAt", "shareToken"} => doc[f] # NULL
        THEN doc[f] ELSE files[id][f]]]

\* (mutant) the update is applied to the children of the saved document too.
SaveDocSubtree(id, doc, dirty) ==
  [i \in DOMAIN files |->
     IF i = id \/ files[i].parentFolder = id
     THEN [f \in DOMAIN files[i] |->
             IF f \in dirty THEN doc[f] ELSE files[i][f]]
     ELSE files[i]]

\* (mutant) the update carries the modified flags and not the values that go
\* with them.
SaveDocFlagsOnly(id, doc, dirty) ==
  [files EXCEPT ![id] =
     [f \in DOMAIN files[id] |->
        IF f \in dirty \cap {"isStarred", "isDeleted", "isShared"}
        THEN doc[f] ELSE files[id][f]]]

\* save() sends the modified paths only: updateOne({ _id }, { $set: ... }).
SaveDoc(id, doc, dirty) ==
  [files EXCEPT ![id] =
     [f \in DOMAIN files[id] |-> IF f \in dirty THEN doc[f] ELSE files[id][f]]]

\* PUT /:id/star
ToggleStar(p, alone, u, id) ==
  /\ Begin(p, alone)
  /\ UNCHANGED <<files, blobs, nextId, nextTok, nextBlob, revoked, accounts>>
  /\ LET r == Request("toggleStar", u, id)
         file == FindOwned(id, u) IN
     IF file = NULL THEN Set(p, Fail(r, 404, "missing"))
     ELSE Set(p, Load(r, [files[file] EXCEPT !.isStarred = ~@], {"isStarred"}))

\* PUT /:id/restore
Restore(p, alone, u, id) ==
  /\ Begin(p, alone)
  /\ UNCHANGED <<files, blobs, nextId, nextTok, nextBlob, revoked, accounts>>
  /\ LET r == Request("restore", u, id)
         file == FindOwned(id, u) IN
     IF file = NULL THEN Set(p, Fail(r, 404, "missing"))
     ELSE LET doc == [files[file] EXCEPT !.isDeleted = FALSE,
                                         !.deletedAt = NULL] IN
          Set(p, Load(r, doc, Modified(files[file], doc)))

\* (mutant) the soft delete switches sharing off as well.
SoftDeleteUnsharing(p, alone, u, id) ==
  /\ Begin(p, alone)
  /\ UNCHANGED <<files, blobs, nextId, nextTok, nextBlob, revoked, accounts>>
  /\ LET r == Request("softDelete", u, id)
         file == FindById(id) IN
     IF file = NULL THEN Set(p, Fail(r, 404, "missing"))
     ELSE IF ~isOwnedBy(files[file], u) THEN Set(p, Fail(r, 403, "denied"))
     ELSE LET doc == [files[file] EXCEPT !.isDeleted = TRUE,
                                         !.deletedAt = Now,
                                         !.isShared = FALSE,
                                         !.shareToken = NULL] IN
          Set(p, Load(r, doc, Modified(files[file], doc) \cup {"deletedAt"}))

\* DELETE /:id
SoftDelete(p, alone, u, id) ==
  /\ Begin(p, alone)
  /\ UNCHANGED <<files, blobs, nextId, nextTok, nextBlob, revoked, accounts>>
  /\ LET r == Request("softDelete", u, id)
         file == FindById(id) IN
     IF file = NULL THEN Set(p, Fail(r, 404, "missing"))
     ELSE IF ~isOwnedBy(files[file], u) THEN Set(p, Fail(r, 403, "denied"))
     ELSE LET doc == [files[file] EXCEPT !.isDeleted = TRUE,
                                         !.deletedAt = Now] IN
          \* Date.now() is a new value of deletedAt whatever the old one was
          Set(p, Load(r, doc, Modified(files[file], doc) \cup {"deletedAt"}))

\* PUT /:id/share
ToggleShare(p, alone, u, id, max) ==
  /\ Begin(p, alone)
  /\ UNCHANGED <<files, blobs, nextId, nextBlob, revoked, accounts>>
  /\ LET r == Request("toggleShare", u, id)
         file == FindOwned(id, u) IN
     IF file = NULL
     THEN Set(p, Fail(r, 404, "missing")) /\ UNCHANGED nextTok
     ELSE IF files[file].isShared
     THEN /\ Set(p, Load(r, [files[file] EXCEPT !.isShared = FALSE,
                                                !.shareToken = NULL],
                         {"isShared", "shareToken"}))
          /\ UNCHANGED nextTok
     ELSE /\ nextTok <= max
          /\ Set(p, Load(r, [files[file] EXCEPT !.isShared = TRUE,
                                                !.shareToken = nextTok],
                         {"isShared", "shareToken"}))
          /\ nextTok' = nextTok + 1

\* What each save() route puts in its answer: the saved document, and for
\* the share route the token of the link; DELETE /:id answers no document.
Saved(r) ==
  Respond([r EXCEPT !.token = IF r.op = "toggleShare" /\ r.doc.isShared
                               THEN r.doc.shareToken ELSE NULL],
          200, IF r.op = "softDelete" THEN {} ELSE {r.id})

\* The token that the save() of a share toggle turns off: the one the
\* document holds when sharing is switched off.
Revokes(r) ==
  IF r.op = "toggleShare" /\ ~r.doc.isShared /\ files[r.id].shareToken # NULL
  THEN {files[r.id].shareToken}
  ELSE {}

\* await file.save().  When the document has been removed meanwhile the
\* update matches nothing: save() throws (the catch block answers 500) or
\* resolves, depending on the mongoose version.
Save(p) ==
  /\ procs[p].pc = "save"
  /\ LET r == procs[p] IN
     IF r.id \in DOMAIN files
     THEN /\ files' = SaveDoc(r.id, r.doc, r.dirty)
          /\ revoked' = revoked \cup Revokes(r)
          /\ Set(p, Saved(r))
     ELSE /\ UNCHANGED <<files, revoked, accounts>>
          /\ \E thrown \in BOOLEAN :
               Set(p, IF thrown THEN Fail(r, 500, "error") ELSE Saved(r))
  /\ UNCHANGED <<blobs, nextId, nextTok, nextBlob, pre, accounts>>

\* ------------------------------------------------------------- tree walks
RECURSIVE SortedSeq(_)
SortedSeq(S) == IF S = {} THEN <<>> ELSE <<Min(S)>> \o SortedSeq(S \ {Min(S)})

\* What a walk reads of a found document.
Item(i) ==
  [ id           |-> i,
    isFolder     |-> files[i].isFolder,
    supabasePath |-> files[i].supabasePath,
    name         |-> files[i].name ]

\* The documents of a find(), in natural (insertion) order.
Items(S) == [k \in 1..Cardinality(S) |-> Item(SortedSeq(S)[k])]

Frame(folder, prefix) == [folder |-> folder, prefix |-> prefix, items |-> <<>>]

Top(stack) == stack[Len(stack)]
Pop(stack) == SubSeq(stack, 1, Len(stack) - 1)
\* The frame on top with its items replaced.
WithItems(stack, items) == [stack EXCEPT ![Len(stack)].items = items]

Remove(id) == [i \in DOMAIN files \ {id} |-> files[i]]

\* --------------------------------------------------- DELETE /:id/permanent
\* (mutant) the walk of the deletion with the filter of the export's walk.
ChildrenOfSkippingTrash(folderId, userId) ==
  {i \in DOMAIN files :
     /\ files[i].parentFolder = folderId
     /\ files[i].owner = userId
     /\ ~files[i].isDeleted}

\* File.find({ parentFolder: folderId, owner: userId })
ChildrenOf(folderId, userId) ==
  {i \in DOMAIN files :
     files[i].parentFolder = folderId /\ files[i].owner = userId}

\* (mutant) the loop of deleteFolder removes a subfolder's document without
\* walking into the subfolder.
PdNextNoDescent(r, stack) ==
  IF stack = <<>> THEN Await([r EXCEPT !.stack = <<>>], "pd_final")
  ELSE IF Top(stack).items = <<>>
  THEN Await([r EXCEPT !.stack = Pop(stack)],
             IF Pop(stack) = <<>> THEN "pd_final" ELSE "pd_item_del")
  ELSE LET item == Head(Top(stack).items) IN
       IF ~item.isFolder /\ item.supabasePath # NULL
       THEN Await([r EXCEPT !.stack = stack], "pd_item_blob")
       ELSE Await([r EXCEPT !.stack = stack], "pd_item_del")

\* (mutant) the loop of deleteFolder removes a file's document without
\* removing its blob.
PdNextNoBlob(r, stack) ==
  IF stack = <<>> THEN Await([r EXCEPT !.stack = <<>>], "pd_final")
  ELSE IF Top(stack).items = <<>>
  THEN Await([r EXCEPT !.stack = Pop(stack)],
             IF Pop(stack) = <<>> THEN "pd_final" ELSE "pd_item_del")
  ELSE LET item == Head(Top(stack).items) IN
       IF item.isFolder
       THEN Await([r EXCEPT !.stack = Append(stack, Frame(item.id, <<>>))],
                  "pd_find")
       ELSE Await([r EXCEPT !.stack = stack], "pd_item_del")

\* Where deleteFolder goes on after a find() or a findByIdAndDelete(): into
\* the next item of the loop, or back to its caller when the loop is over.
PdNext(r, stack) ==
  IF stack = <<>> THEN Await([r EXCEPT !.stack = <<>>], "pd_final")
  ELSE IF Top(stack).items = <<>>
  THEN \* deleteFolder returns: to the route, or to the loop that called it,
       \* which now deletes the subfolder's own document
       Await([r EXCEPT !.stack = Pop(stack)],
             IF Pop(stack) = <<>> THEN "pd_final" ELSE "pd_item_del")
  ELSE LET item == Head(Top(stack).items) IN
       IF item.isFolder
       THEN Await([r EXCEPT !.stack = Append(stack, Frame(item.id, <<>>))],
                  "pd_find")
       ELSE IF item.supabasePath # NULL
       THEN Await([r EXCEPT !.stack = stack], "pd_item_blob")
       ELSE Await([r EXCEPT !.stack = stack], "pd_item_del")

PermanentDelete(p, alone, u, id) ==
  /\ Begin(p, alone)
  /\ UNCHANGED <<files, blobs, nextId, nextTok, nextBlob, revoked, accounts>>
  /\ LET r == Request("permanentDelete", u, id)
         file == FindById(id) IN
     IF file = NULL THEN Set(p, Fail(r, 404, "missing"))
     ELSE IF ~isOwnedBy(files[file], u) THEN Set(p, Fail(r, 403, "denied"))
     ELSE IF ~files[file].isFolder /\ files[file].supabasePath # NULL
     THEN Set(p, Await([r EXCEPT !.doc = files[file]], "pd_blob"))
     ELSE IF files[file].isFolder
     THEN Set(p, Await([r EXCEPT !.stack = <<Frame(file, <<>>)>>], "pd_find"))
     ELSE Set(p, Await(r, "pd_final"))

\* supabase.storage.remove of the target file: an error is logged only.
PermanentDeleteBlob(p) ==
  /\ procs[p].pc = "pd_blob"
  /\ \E ok \in BOOLEAN :
       /\ blobs' = IF ok THEN blobs \ {procs[p].doc.supabasePath} ELSE blobs
       /\ Set(p, Await([procs[p] EXCEPT !.failed =
                          IF ok THEN @ ELSE @ \cup {procs[p].doc.supabasePath}],
                       "pd_final"))
  /\ UNCHANGED <<files, nextId, nextTok, nextBlob, pre, revoked, accounts>>

\* deleteFolder: const items = await File.find(...)
DeleteFolderFind(p) ==
  /\ procs[p].pc = "pd_find"
  /\ LET r == procs[p]
         found == Items(ChildrenOf(Top(r.stack).folder, r.user)) IN
     Set(p, PdNext(r, WithItems(r.stack, found)))
  /\ UNCHANGED <<files, blobs, nextId, nextTok, nextBlob, pre, revoked, accounts>>

\* (mutant) deleteFolder gives up when the removal of an item's blob fails.
DeleteFolderBlobAborting(p) ==
  /\ procs[p].pc = "pd_item_blob"
  /\ \E ok \in BOOLEAN :
       IF ok
       THEN /\ blobs' = blobs \ {Head(Top(procs[p].stack).items).supabasePath}
            /\ Set(p, Await(procs[p], "pd_item_del"))
       ELSE /\ blobs' = blobs
            /\ Set(p, Fail(procs[p], 500, "error"))
  /\ UNCHANGED <<files, nextId, nextTok, nextBlob, pre, revoked, accounts>>

\* deleteFolder: supabase.storage.remove of an item; the result is ignored.
DeleteFolderBlob(p) ==
  /\ procs[p].pc = "pd_item_blob"
  /\ \E ok \in BOOLEAN :
       LET key == Head(Top(procs[p].stack).items).supabasePath IN
       /\ blobs' = IF ok THEN blobs \ {key} ELSE blobs
       /\ Set(p, Await([procs[p] EXCEPT !.failed =
                          IF ok THEN @ ELSE @ \cup {key}],
                       "pd_item_del"))
  /\ UNCHANGED <<files, nextId, nextTok, nextBlob, pre, revoked, accounts>>

\* (mutant) the loop of deleteFolder does not move on to the next item.
DeleteFolderItemStuck(p) ==
  /\ procs[p].pc = "pd_item_del"
  /\ LET r == procs[p]
         items == Top(r.stack).items IN
     /\ files' = Remove(Head(items).id)
     /\ Set(p, Await(r, "pd_item_del"))
  /\ UNCHANGED <<blobs, nextId, nextTok, nextBlob, pre, revoked, accounts>>

\* deleteFolder: await File.findByIdAndDelete(item._id), then the next item.
DeleteFolderItem(p) ==
  /\ procs[p].pc = "pd_item_del"
  /\ LET r == procs[p]
         items == Top(r.stack).items IN
     /\ files' = Remove(Head(items).id)
     /\ Set(p, PdNext(r, WithItems(r.stack, Tail(items))))
  /\ UNCHANGED <<blobs, nextId, nextTok, nextBlob, pre, revoked, accounts>>

\* deleteFolder: File.find rejects (the store cannot be read); the error
\* propagates to the route's catch block, which answers 500.
DeleteFolderFindFails(p) ==
  /\ procs[p].pc = "pd_find"
  /\ Set(p, Fail(procs[p], 500, "error"))
  /\ UNCHANGED <<files, blobs, nextId, nextTok, nextBlob, pre, revoked, accounts>>

\* await File.findByIdAndDelete(req.params.id)
PermanentDeleteFinal(p) ==
  /\ procs[p].pc = "pd_final"
  /\ files' = Remove(procs[p].id)
  /\ Set(p, Respond(procs[p], 200, {}))
  /\ UNCHANGED <<blobs, nextId, nextTok, nextBlob, pre, revoked, accounts>>

\* ------------------------------------------------ GET /folder/:id/download
\* (mutant) the export's walk with the filter of the deletion's walk.
LiveChildrenOfWithTrash(folderId, userId) == ChildrenOf(folderId, userId)

\* File.find({ parentFolder: folderId, owner, isDeleted: false })
LiveChildrenOf(folderId, userId) ==
  {i \in DOMAIN files :
     /\ files[i].parentFolder = folderId
     /\ files[i].owner = userId
     /\ ~files[i].isDeleted}

\* archive.append(..., { name })
Entry(id, name, dir) == [id |-> id, name |-> name, dir |-> dir]

\* Where addFolderToArchive goes on after a find() or a download(): a folder
\* item is appended and entered (its find() is the next awaited call), a file
\* item is downloaded next, and the end of a loop returns to the loop that
\* called it, at its next item.
RECURSIVE ExNext(_, _, _)
ExNext(r, stack, arch) ==
  IF stack = <<>>
  THEN Await([r EXCEPT !.stack = <<>>, !.arch = arch], "ex_finalize")
  ELSE IF Top(stack).items = <<>>
  THEN IF Pop(stack) = <<>> THEN ExNext(r, <<>>, arch)
       ELSE ExNext(r, WithItems(Pop(stack), Tail(Top(Pop(stack)).items)), arch)
  ELSE LET item == Head(Top(stack).items)
           name == Top(stack).prefix \o item.name IN
       IF item.isFolder
       THEN Await([r EXCEPT
                     !.stack = Append(stack, Frame(item.id, name \o <<"/">>)),
                     !.arch = arch \cup {Entry(item.id, name \o <<"/">>, TRUE)}],
                  "ex_find")
       ELSE Await([r EXCEPT !.stack = stack, !.arch = arch], "ex_download")

ExportFolder(p, alone, u, id) ==
  /\ Begin(p, alone)
  /\ UNCHANGED <<files, blobs, nextId, nextTok, nextBlob, revoked, accounts>>
  /\ LET r == Request("export", u, id)
         folder == FindOwnedFolder(id, u) IN
     IF folder = NULL THEN Set(p, Fail(r, 404, "missing"))
     ELSE Set(p, Await([r EXCEPT !.stack = <<Frame(folder, <<>>)>>], "ex_find"))

ExportFind(p) ==
  /\ procs[p].pc = "ex_find"
  /\ LET r == procs[p]
         found == Items(LiveChildrenOf(Top(r.stack).folder, r.user)) IN
     Set(p, ExNext(r, WithItems(r.stack, found), r.arch))
  /\ UNCHANGED <<files, blobs, nextId, nextTok, nextBlob, pre, revoked, accounts>>

\* (mutant) a failed download ends the loop over the folder's items.
ExportDownloadBreaking(p) ==
  /\ procs[p].pc = "ex_download"
  /\ LET r == procs[p]
         items == Top(r.stack).items
         item == Head(items) IN
     \E ok \in BOOLEAN :
       /\ ok => item.supabasePath \in blobs
       /\ Set(p, IF ok
                 THEN ExNext(r, WithItems(r.stack, Tail(items)),
                             r.arch \cup {Entry(item.id,
                                                Top(r.stack).prefix \o item.name,
                                                FALSE)})
                 ELSE ExNext([r EXCEPT !.skipped = @ \cup {item.id}],
                             WithItems(r.stack, <<>>), r.arch))
  /\ UNCHANGED <<files, blobs, nextId, nextTok, nextBlob, pre, revoked, accounts>>

\* addFolderToArchive: File.find rejects; the error propagates to the
\* route's catch block.  With res.headersSent false it answers 500; with the
\* headers sent (archive data has reached res, which it may have once an
\* entry was appended) it only logs: res is neither ended nor destroyed and
\* the archive is not finalized.
ExportFindFails(p) ==
  /\ procs[p].pc = "ex_find"
  /\ \E headersSent \in BOOLEAN :
       /\ headersSent => procs[p].arch # {}
       /\ Set(p, IF headersSent
                 THEN Await([procs[p] EXCEPT !.stack = <<>>], "ex_open")
                 ELSE Fail(procs[p], 500, "error"))
  /\ UNCHANGED <<files, blobs, nextId, nextTok, nextBlob, pre, revoked, accounts>>

\* supabase.storage.download: the bytes are appended when there is no error.
ExportDownload(p) ==
  /\ procs[p].pc = "ex_download"
  /\ LET r == procs[p]
         items == Top(r.stack).items
         item == Head(items) IN
     \E ok \in BOOLEAN :
       /\ ok => item.supabasePath \in blobs
       /\ Set(p, ExNext([r EXCEPT !.skipped =
                                     IF ok THEN @ ELSE @ \cup {item.id}],
                        WithItems(r.stack, Tail(items)),
                        IF ok
                        THEN r.arch \cup {Entry(item.id,
                                                Top(r.stack).prefix \o item.name,
                                                FALSE)}
                        ELSE r.arch))
  /\ UNCHANGED <<files, blobs, nextId, nextTok, nextBlob, pre, revoked, accounts>>

\* The consumer of the archive disconnects while the handler walks the
\* tree: archive.pipe(res) loses its destination.  The handler registers no
\* listener for it and reads no state of res in the walk.
Close(p) ==
  /\ procs[p].pc \in {"ex_find", "ex_download", "ex_finalize"}
  /\ ~procs[p].closed
  /\ Set(p, [procs[p] EXCEPT !.closed = TRUE])
  /\ UNCHANGED <<files, blobs, nextId, nextTok, nextBlob, pre, revoked, accounts>>

\* await archive.finalize(): the stream ends.
ExportFinalize(p) ==
  /\ procs[p].pc = "ex_finalize"
  /\ Set(p, Respond(procs[p], 200, {}))
  /\ UNCHANGED <<files, blobs, nextId, nextTok, nextBlob, pre, revoked, accounts>>

\* ----------------------------------------------- POST /forgot-password
\* The 200 answer of the route; both of its return statements send the same
\* body.
ResetSent(r) == [Respond(r, 200, {}) EXCEPT !.msg = "sent"]

\* (mutant) an email without an account is answered 404.
ForgotPasswordRevealing(p, alone, email, max) ==
  /\ Begin(p, alone)
  /\ UNCHANGED <<files, blobs, nextId, nextBlob, revoked, accounts>>
  /\ LET r == [Request("forgotPassword", Anon, NULL) EXCEPT !.email = email] IN
     IF email = NoEmail
     THEN Set(p, Fail(r, 400, "required")) /\ UNCHANGED nextTok
     ELSE \E thrown \in BOOLEAN :
            IF thrown
            THEN Set(p, Fail(r, 500, "error")) /\ UNCHANGED nextTok
            ELSE IF ~accounts[ToLowerCase(email)].exists
            THEN Set(p, Fail(r, 404, "missing")) /\ UNCHANGED nextTok
            ELSE /\ nextTok <= max
                 /\ Set(p, Await([r EXCEPT !.reset = nextTok], "fp_save"))
                 /\ nextTok' = nextTok + 1

\* The validation, User.findOne({ email: email.toLowerCase() }), which may
\* reject (the catch block answers 500), and generateRandomToken().
ForgotPassword(p, alone, email, max) ==
  /\ Begin(p, alone)
  /\ UNCHANGED <<files, blobs, nextId, nextBlob, revoked, accounts>>
  /\ LET r == [Request("forgotPassword", Anon, NULL) EXCEPT !.email = email] IN
     IF email = NoEmail
     THEN Set(p, Fail(r, 400, "required")) /\ UNCHANGED nextTok
     ELSE \E thrown \in BOOLEAN :
            IF thrown
            THEN Set(p, Fail(r, 500, "error")) /\ UNCHANGED nextTok
            ELSE IF ~accounts[ToLowerCase(email)].exists
            THEN Set(p, ResetSent(r)) /\ UNCHANGED nextTok
            ELSE /\ nextTok <= max
                 /\ Set(p, Await([r EXCEPT !.reset = nextTok], "fp_save"))
                 /\ nextTok' = nextTok + 1

\* await user.save(): the reset token is stored, or the call rejects.
ForgotSave(p) ==
  /\ procs[p].pc = "fp_save"
  /\ LET r == procs[p] IN
     \E thrown \in BOOLEAN :
       IF thrown
       THEN Set(p, Fail(r, 500, "error")) /\ UNCHANGED accounts
       ELSE /\ accounts' = [accounts EXCEPT
                              ![ToLowerCase(r.email)].resetToken = r.reset]
            /\ Set(p, Await(r, "fp_mail"))
  /\ UNCHANGED <<files, blobs, nextId, nextTok, nextBlob, pre, revoked>>

\* await sendPasswordResetEmail(...): sendEmail catches its errors and
\* returns true or false, which the route does not read.
ForgotMail(p) ==
  /\ procs[p].pc = "fp_mail"
  /\ Set(p, ResetSent(procs[p]))
  /\ UNCHANGED <<files, blobs, nextId, nextTok, nextBlob, pre, revoked, accounts>>

\* ------------------------------------------------------------------ return
\* The response has been sent: the slot is free again.
Return(p) ==
  /\ procs[p].pc = "done"
  /\ Set(p, Idle)
  /\ pre' = NoPre
  /\ UNCHANGED <<files, blobs, nextId, nextTok, nextBlob, revoked, accounts>>

\* ---------------------------------------------------------- specifications
ParentArgs(max) == (1..max) \cup {NULL}

\* All routes, one request at a time, both users.
Next ==
  \E p \in Procs :
    \/ \E u \in Users, name \in {<<" ">>, <<"a">>},
          parent \in ParentArgs(MaxFilesAll) :
         CreateFolder(p, TRUE, u, name, parent)
    \/ CreateFolderCheck(p)
    \/ CreateFolderInsert(p, MaxFilesAll)
    \/ \E u \in Users, hasFile \in BOOLEAN, name \in {<<"a">>},
          parent \in ParentArgs(MaxFilesAll) :
         Upload(p, TRUE, u, hasFile, name, parent)
    \/ UploadPut(p, MaxBlobsAll)
    \/ UploadCreate(p, MaxFilesAll)
    \/ \E u \in Users, view \in {"trash", "starred"} :
         ListFiles(p, TRUE, u, view, NULL)
    \/ \E u \in Users, parent \in ParentArgs(MaxFilesAll) :
         ListFiles(p, TRUE, u, "default", parent)
    \/ \E u \in Users, id \in 1..MaxFilesAll : Download(p, TRUE, u, id)
    \/ DownloadSign(p)
    \/ \E caller \in Users \cup {Anon}, token \in Tokens :
         ResolveShared(p, TRUE, caller, token)
    \/ ResolveSign(p)
    \/ \E u \in Users, id \in 1..MaxFilesAll : ToggleStar(p, TRUE, u, id)
    \/ \E u \in Users, id \in 1..MaxFilesAll : Restore(p, TRUE, u, id)
    \/ \E u \in Users, id \in 1..MaxFilesAll : SoftDelete(p, TRUE, u, id)
    \/ \E u \in Users, id \in 1..MaxFilesAll : ToggleShare(p, TRUE, u, id, MaxTokens)
    \/ Save(p)
    \/ \E u \in Users, id \in 1..MaxFilesAll : PermanentDelete(p, TRUE, u, id)
    \/ PermanentDeleteBlob(p)
    \/ DeleteFolderFind(p)
    \/ DeleteFolderBlob(p)
    \/ DeleteFolderItem(p)
    \/ PermanentDeleteFinal(p)
    \/ \E u \in Users, id \in 1..MaxFilesAll : ExportFolder(p, TRUE, u, id)
    \/ ExportFind(p)
    \/ ExportDownload(p)
    \/ ExportFinalize(p)
    \/ Return(p)

Spec == Init /\ [][Next]_vars

\* The lifecycle of a tree, one request at a time: creation, trash, restore,
\* permanent deletion, export and the listings, on trees of up to MaxFiles
\* documents.
NextTree ==
  \E p \in Procs :
    \/ \E u \in {"u1"}, name \in {<<"a">>}, parent \in ParentArgs(MaxFiles) :
         CreateFolder(p, TRUE, u, name, parent)
    \/ CreateFolderCheck(p)
    \/ CreateFolderInsert(p, MaxFiles)
    \/ \E u \in {"u1"}, name \in {<<"a">>}, parent \in ParentArgs(MaxFiles) :
         Upload(p, TRUE, u, TRUE, name, parent)
    \/ UploadPut(p, MaxBlobs)
    \/ UploadCreate(p, MaxFiles)
    \/ \E u \in {"u1"} : ListFiles(p, TRUE, u, "trash", NULL)
    \/ \E u \in {"u1"}, parent \in ParentArgs(MaxFiles) :
         ListFiles(p, TRUE, u, "default", parent)
    \/ \E u \in {"u1"}, id \in 1..MaxFiles : Restore(p, TRUE, u, id)
    \/ \E u \in {"u1"}, id \in 1..MaxFiles : SoftDelete(p, TRUE, u, id)
    \/ Save(p)
    \/ \E u \in {"u1"}, id \in 1..MaxFiles : PermanentDelete(p, TRUE, u, id)
    \/ PermanentDeleteBlob(p)
    \/ DeleteFolderFind(p)
    \/ DeleteFolderBlob(p)
    \/ DeleteFolderItem(p)
    \/ PermanentDeleteFinal(p)
    \/ \E u \in {"u1"}, id \in 1..MaxFiles : ExportFolder(p, TRUE, u, id)
    \/ ExportFind(p)
    \/ ExportDownload(p)
    \/ ExportFinalize(p)
    \/ Close(p)
    \/ Return(p)

SpecTree == Init /\ [][NextTree]_vars

\* Overlapping POST /folder requests: their awaited calls interleave.
NextRace ==
  \E p \in Procs :
    \/ \E u \in Users, name \in {<<"a">>, <<" ", "a">>, <<"b">>},
          parent \in ParentArgs(MaxFiles) :
         CreateFolder(p, FALSE, u, name, parent)
    \/ CreateFolderCheck(p)
    \/ CreateFolderInsert(p, MaxFiles)
    \/ Return(p)

SpecRace == Init /\ [][NextRace]_vars

\* Creations that overlap with a permanent deletion: the awaited calls of a
\* POST /folder or a POST /upload interleave with those of a
\* DELETE /:id/permanent.
NextOrphan ==
  \E p \in Procs :
    \/ \E parent \in ParentArgs(MaxFiles) :
         CreateFolder(p, FALSE, "u1", <<"a">>, parent)
    \/ CreateFolderCheck(p)
    \/ CreateFolderInsert(p, MaxFiles)
    \/ \E parent \in ParentArgs(MaxFiles) :
         Upload(p, FALSE, "u1", TRUE, <<"a">>, parent)
    \/ UploadPut(p, MaxBlobs)
    \/ UploadCreate(p, MaxFiles)
    \/ \E id \in 1..MaxFiles : PermanentDelete(p, FALSE, "u1", id)
    \/ PermanentDeleteBlob(p)
    \/ DeleteFolderFind(p)
    \/ DeleteFolderBlob(p)
    \/ DeleteFolderItem(p)
    \/ PermanentDeleteFinal(p)
    \/ Return(p)

SpecOrphan == Init /\ [][NextOrphan]_vars

\* Overlapping save() routes on the same documents: each request loads the
\* document, assigns, and its save() runs after the other's load or save.
NextToggle ==
  \E p \in Procs :
    \/ CreateFolder(p, FALSE, "u1", <<"a">>, NULL)
    \/ CreateFolderInsert(p, MaxFilesAll)
    \/ \E id \in 1..MaxFilesAll : ToggleShare(p, FALSE, "u1", id, MaxTokensShare)
    \/ \E id \in 1..MaxFilesAll : SoftDelete(p, FALSE, "u1", id)
    \/ \E id \in 1..MaxFilesAll : Restore(p, FALSE, "u1", id)
    \/ Save(p)
    \/ Return(p)

SpecToggle == Init /\ [][NextToggle]_vars

\* Overlapping toggles of the star and of the share link of one document:
\* a toggle loads the document, flips the flag of its copy, and its save()
\* runs after the other toggle's load or save.
NextFlip ==
  \E p \in Procs :
    \/ CreateFolder(p, FALSE, "u1", <<"a">>, NULL)
    \/ CreateFolderInsert(p, MaxFilesAll)
    \/ \E id \in 1..MaxFilesAll : ToggleStar(p, FALSE, "u1", id)
    \/ \E id \in 1..MaxFilesAll : ToggleShare(p, FALSE, "u1", id, MaxTokensShare)
    \/ Save(p)
    \/ Return(p)

SpecFlip == Init /\ [][NextFlip]_vars

\* Exports and permanent deletions, one request at a time, in which a read
\* of the store may fail; every awaited call returns, so the step of a
\* handler that is waiting for one is eventually taken.
NextLive ==
  \E p \in Procs :
    \/ \E parent \in ParentArgs(MaxFiles) :
         CreateFolder(p, TRUE, "u1", <<"a">>, parent)
    \/ CreateFolderCheck(p)
    \/ CreateFolderInsert(p, MaxFiles)
    \/ \E parent \in ParentArgs(MaxFiles) :
         Upload(p, TRUE, "u1", TRUE, <<"a">>, parent)
    \/ UploadPut(p, MaxBlobs)
    \/ UploadCreate(p, MaxFiles)
    \/ \E id \in 1..MaxFiles : PermanentDelete(p, TRUE, "u1", id)
    \/ PermanentDeleteBlob(p)
    \/ DeleteFolderFind(p)
    \/ DeleteFolderFindFails(p)
    \/ DeleteFolderBlob(p)
    \/ DeleteFolderItem(p)
    \/ PermanentDeleteFinal(p)
    \/ \E id \in 1..MaxFiles : ExportFolder(p, TRUE, "u1", id)
    \/ ExportFind(p)
    \/ ExportFindFails(p)
    \/ ExportDownload(p)
    \/ ExportFinalize(p)
    \/ Return(p)

\* The steps of the handler in slot p that follow an awaited call.
HandlerStep(p) ==
  \/ PermanentDeleteBlob(p)
  \/ DeleteFolderFind(p)
  \/ DeleteFolderFindFails(p)
  \/ DeleteFolderBlob(p)
  \/ DeleteFolderItem(p)
  \/ PermanentDeleteFinal(p)
  \/ ExportFind(p)
  \/ ExportFindFails(p)
  \/ ExportDownload(p)
  \/ ExportFinalize(p)

SpecLive ==
  Init /\ [][NextLive]_vars /\ \A p \in Procs : WF_vars(HandlerStep(p))

\* The public POST /forgot-password, requests overlapping, on any set of
\* registered users.
NextAuth ==
  \E p \in Procs :
    \/ \E email \in Emails \cup {NoEmail} :
         ForgotPassword(p, FALSE, email, MaxResets)
    \/ ForgotSave(p)
    \/ ForgotMail(p)
    \/ Return(p)

SpecAuth == InitAuth /\ [][NextAuth]_vars

\* ------------------------------------------------------------ properties
\* The documents below the documents of S in the collection F, S included.
RECURSIVE Below(_, _)
Below(F, S) ==
  LET kids == {i \in DOMAIN F : F[i].parentFolder \in S} \ S
  IN  IF kids = {} THEN S ELSE Below(F, S \cup kids)

Descendants(F, id) == Below(F, {id}) \ {id}

\* A request of kind op that has been answered with status.
Answered(p, op, status) ==
  procs[p].pc = "done" /\ procs[p].op = op /\ procs[p].status = status

SameFolderKey(i, j) ==
  /\ files[i].isFolder /\ files[j].isFolder
  /\ files[i].owner = files[j].owner
  /\ files[i].parentFolder = files[j].parentFolder
  /\ files[i].name = files[j].name

\* C1: of two overlapping createFolder requests with the same owner, parent
\* and name at most one is answered 201, and the collection never holds two
\* folder documents with the same owner, parent and name.
C1_OneFolderPerKey ==
  /\ \A i, j \in DOMAIN files : SameFolderKey(i, j) => i = j
  /\ \A p, q \in Procs :
       (/\ p # q
        /\ Answered(p, "createFolder", 201)
        /\ Answered(q, "createFolder", 201))
       => \E i \in procs[p].out, j \in procs[q].out : ~SameFolderKey(i, j)

\* C2: when the owner's softDelete of a folder has been answered, the trash
\* listing of the owner holds the folder and every descendant of it.
C2_TrashHoldsSubtree ==
  \A p \in Procs :
    (Answered(p, "softDelete", 200) /\ pre.files[procs[p].id].isFolder)
    => ({procs[p].id} \cup Descendants(pre.files, procs[p].id))
         \subseteq ListQuery(procs[p].user, "trash", NULL)

\* C3: when a permanentDelete that ran alone has been answered, the target
\* and every document that was below it (trashed ones too) are gone, and no
\* document that remains names one of them as its parentFolder.
C3_PermanentDeleteRemovesSubtree ==
  \A p \in Procs :
    Answered(p, "permanentDelete", 200)
    => LET gone == Below(pre.files, {procs[p].id}) IN
       /\ gone \cap DOMAIN files = {}
       /\ \A i \in DOMAIN files : files[i].parentFolder \notin gone

\* A folder was deleted for good together with a trashed document two levels
\* below it.
C3_Witness ==
  \E p \in Procs :
    /\ Answered(p, "permanentDelete", 200)
    /\ \E d \in Descendants(pre.files, procs[p].id) :
         /\ pre.files[d].isDeleted
         /\ pre.files[d].parentFolder # procs[p].id
         /\ d \notin DOMAIN files

\* C4: once a share toggle has turned a token off, every resolveSharedEntry
\* of that token issued afterwards is answered NotFound.
C4_RevokedTokenNotFound ==
  \A p \in Procs :
    (/\ procs[p].op = "resolve"
     /\ procs[p].pc # "idle"
     /\ procs[p].token \in revoked)
    => procs[p].pc = "done" /\ procs[p].status = 404 /\ procs[p].out = {}

\* A token that was turned off has been looked up, while the document that
\* held it is still there.
C4_Witness ==
  \E p \in Procs :
    /\ Answered(p, "resolve", 404)
    /\ procs[p].token \in revoked
    /\ \E i \in DOMAIN files : ~files[i].isShared /\ ~files[i].isDeleted

\* The documents of F that a share token resolves to.
SharedAs(F, token) ==
  {e \in DOMAIN F :
     F[e].isShared /\ ~F[e].isDeleted /\ F[e].shareToken = token}

\* C5: resolveSharedEntry answers with a document exactly when that document
\* is shared, not deleted and holds the token, whoever calls; NotFound
\* otherwise; a signed url comes only with a file.
C5_ResolveExactlyShared ==
  \A p \in Procs :
    (procs[p].pc = "done" /\ procs[p].op = "resolve")
    => LET r == procs[p]
           M == SharedAs(pre.files, r.token) IN
       /\ M = {} => r.status = 404 /\ r.out = {} /\ ~r.url
       /\ M # {} => r.status = 200 /\ \E e \in M : r.out = {e}
       /\ r.url => \A e \in r.out : ~pre.files[e].isFolder

\* A user who does not own a shared file has resolved its token and got the
\* file with a signed url.
C5_Witness ==
  \E p \in Procs :
    /\ Answered(p, "resolve", 200)
    /\ procs[p].url
    /\ procs[p].user \in Users
    /\ \E e \in procs[p].out : files[e].owner # procs[p].user

\* The live folders reached from the folders of S through live folders.
RECURSIVE LiveFoldersBelow(_, _)
LiveFoldersBelow(F, S) ==
  LET kids == {i \in DOMAIN F : /\ F[i].parentFolder \in S
                                /\ F[i].isFolder
                                /\ ~F[i].isDeleted} \ S
  IN  IF kids = {} THEN S ELSE LiveFoldersBelow(F, S \cup kids)

\* C6: a finished archive holds no entry of a deleted document, and holds a
\* directory entry for every live folder reached from the root through live
\* folders, the empty ones too.
C6_ArchiveOfLiveTree ==
  \A p \in Procs :
    Answered(p, "export", 200)
    => LET r == procs[p] IN
       /\ \A e \in r.arch : e.id \in DOMAIN files /\ ~files[e.id].isDeleted
       /\ \A d \in LiveFoldersBelow(files, {r.id}) \ {r.id} :
            \E e \in r.arch : e.id = d /\ e.dir

\* An archive with the directory entry of a folder that holds nothing, of a
\* tree that holds a deleted document too.
C6_Witness ==
  \E p \in Procs :
    /\ Answered(p, "export", 200)
    /\ \E e \in procs[p].arch :
         e.dir /\ \A i \in DOMAIN files : files[i].parentFolder # e.id
    /\ \E i \in Descendants(files, procs[p].id) : files[i].isDeleted

\* C7: restore changes isDeleted and deletedAt of the restored document and
\* nothing else: every other document is as it was.
C7_RestoreOneEntry ==
  \A p \in Procs :
    Answered(p, "restore", 200)
    => LET id == procs[p].id IN
       /\ DOMAIN files = DOMAIN pre.files
       /\ \A i \in DOMAIN files \ {id} : files[i] = pre.files[i]
       /\ \A f \in DOMAIN files[id] \ {"isDeleted", "deletedAt"} :
            files[id][f] = pre.files[id][f]
       /\ ~files[id].isDeleted /\ files[id].deletedAt = NULL

\* A trashed folder has been restored and a trashed document below it is
\* still in the trash.
C7_Witness ==
  \E p \in Procs :
    /\ Answered(p, "restore", 200)
    /\ pre.files[procs[p].id].isDeleted
    /\ pre.files[procs[p].id].isFolder
    /\ \E d \in Descendants(files, procs[p].id) :
         files[d].isDeleted /\ files[d].deletedAt # NULL

\* The owner of document i, which is in F or in G.
OwnerOf(F, G, i) == IF i \in DOMAIN F THEN F[i].owner ELSE G[i].owner

\* The documents that differ between F and G: created, modified or removed.
Changed(F, G) ==
  {i \in DOMAIN F \cup DOMAIN G :
     i \notin DOMAIN F \/ i \notin DOMAIN G \/ F[i] # G[i]}

\* What user u's request in slot p has touched is u's own: every document it
\* has created, modified or removed and every document in its answer is owned
\* by u, no document was created under a folder of another owner, and no
\* owner has changed.
TouchesOwnOnly(p) ==
  LET r == procs[p]
      u == r.user
      F == pre.files IN
  /\ \A i \in Changed(F, files) : OwnerOf(files, F, i) = u
  /\ \A i \in DOMAIN files \ DOMAIN F :
       files[i].parentFolder # NULL
       => /\ files[i].parentFolder \in DOMAIN F
          /\ F[files[i].parentFolder].owner = u
  /\ \A i \in r.out \cup {e.id : e \in r.arch} : OwnerOf(files, F, i) = u
  /\ \A i \in DOMAIN F \cap DOMAIN files : files[i].owner = F[i].owner

\* The answered request in slot p named a document of another owner.
NamedForeign(p) ==
  /\ procs[p].pc = "done"
  /\ procs[p].id \in DOMAIN pre.files
  /\ pre.files[procs[p].id].owner # procs[p].user

C9_ErrorsChangeNothing ==
  \A p \in Procs :
    (procs[p].pc = "done" /\ procs[p].status \in {400, 403, 404})
    => files = pre.files /\ blobs = pre.blobs

\* A createFolder under a parent was refused although its name was not blank
\* (it got as far as the duplicate check), with a folder and a blob in store.
C9_Witness ==
  \E p \in Procs :
    /\ Answered(p, "createFolder", 400)
    /\ procs[p].msg = "exists"
    /\ procs[p].id # NULL
    /\ \E i \in DOMAIN files :
         /\ files[i].isFolder
         /\ files[i].parentFolder = procs[p].id
         /\ files[i].owner = procs[p].user

\* The blob write of an upload either stores a new blob or answers 500 and
\* creates nothing.
C10_PutStep ==
  \A p \in Procs :
    (procs[p].pc = "up_put" /\ procs'[p].pc # "up_put" /\ blobs' = blobs)
    => /\ procs'[p].pc = "done"
       /\ procs'[p].status = 500
       /\ files' = files

\* While an upload runs and when it has been answered, a document that it
\* has created names a blob that it wrote before; with no blob written there
\* is no new document and no 201.
C10_BlobBeforeRecord ==
  \A p \in Procs :
    procs[p].op = "upload"
    => /\ \A i \in DOMAIN files \ DOMAIN pre.files :
            /\ ~files[i].isFolder
            /\ files[i].supabasePath \in blobs \ pre.blobs
       /\ blobs = pre.blobs
          => files = pre.files /\ procs[p].status # 201

\* C10: when the blob write of an upload fails, the upload is answered with
\* the storage error (500) and no document is created: a document of an
\* upload exists only after its blob was written.
C10_NoRecordWithoutBlob == [](C10_BlobBeforeRecord) /\ [][C10_PutStep]_vars

\* An upload has been answered 500 after its blob write failed.
C10_Witness ==
  \E p \in Procs :
    /\ Answered(p, "upload", 500)
    /\ blobs = pre.blobs
    /\ files = pre.files

\* A blob removal of a permanent deletion, whatever its outcome, is followed
\* by the removal of the document: it changes no document and does not answer.
C11_BlobStep ==
  \A p \in Procs :
    (procs[p].pc \in {"pd_blob", "pd_item_blob"} /\ procs'[p].pc # procs[p].pc)
    => /\ procs'[p].pc = IF procs[p].pc = "pd_blob" THEN "pd_final"
                                                   ELSE "pd_item_del"
       /\ files' = files

\* The owner's permanent deletion is answered 200 only, and then the target
\* and every document that was below it are gone, whichever blobs are left.
C11_AllRecordsGone ==
  \A p \in Procs :
    (procs[p].pc = "done" /\ procs[p].op = "permanentDelete"
       /\ procs[p].id \in DOMAIN pre.files
       /\ pre.files[procs[p].id].owner = procs[p].user)
    => /\ procs[p].status = 200
       /\ Below(pre.files, {procs[p].id}) \cap DOMAIN files = {}

\* C11: permanentDelete removes the target document and every descendant of
\* a folder even when blob removals fail: a failed removal of a blob neither
\* stops the walk nor keeps a document from being removed.
C11_FailedBlobRemovalsIgnored == [](C11_AllRecordsGone) /\ [][C11_BlobStep]_vars

\* A folder with two files has been deleted for good; the blob of one file
\* was removed, the removal of the other failed and its blob is still there.
C11_Witness ==
  \E p \in Procs :
    /\ Answered(p, "permanentDelete", 200)
    /\ pre.files[procs[p].id].isFolder
    /\ \E i, j \in Descendants(pre.files, procs[p].id) :
         /\ pre.files[i].supabasePath \in blobs
         /\ pre.files[j].supabasePath \in pre.blobs \ blobs
    /\ Below(pre.files, {procs[p].id}) \cap DOMAIN files = {}

\* The live documents of F reached from folder id through live folders.
LiveWalk(F, id) ==
  {i \in DOMAIN F : /\ ~F[i].isDeleted
                     /\ F[i].parentFolder \in LiveFoldersBelow(F, {id})}

\* A finished archive holds a directory entry for every folder of the walk
\* and a file entry for every file of the walk but those whose fetch failed.
C12_OnlyFailedOmitted ==
  \A p \in Procs :
    Answered(p, "export", 200)
    => LET r == procs[p]
           W == LiveWalk(files, r.id) IN
       /\ {e.id : e \in {x \in r.arch : x.dir}} = {i \in W : files[i].isFolder}
       /\ {e.id : e \in {x \in r.arch : ~x.dir}}
            = {i \in W : ~files[i].isFolder} \ r.skipped
       /\ r.skipped \subseteq {i \in W : ~files[i].isFolder}

\* The archive is finalized from the end of the traversal only, and a fetch,
\* failed or not, is followed by the rest of the walk.
C12_FinalizeStep ==
  \A p \in Procs :
    /\ (procs'[p].pc = "ex_finalize" /\ procs[p].pc # "ex_finalize")
       => procs'[p].stack = <<>>
    /\ (procs[p].op = "export" /\ procs'[p].pc = "done" /\ procs[p].pc # "done")
       => \/ procs[p].pc = "ex_finalize" /\ procs'[p].status = 200
          \/ procs[p].pc = "idle" /\ procs'[p].status = 404
    /\ (procs[p].pc = "ex_download" /\ procs'[p].pc # procs[p].pc)
       => procs'[p].pc \in {"ex_find", "ex_finalize"}

\* C12: a failed blob fetch of an export omits that file only: every other
\* live file and folder of the walk is appended, and the archive is finalized
\* once, when the whole traversal is over.
C12_FailedFetchSkipsOneFile ==
  [](C12_OnlyFailedOmitted) /\ [][C12_FinalizeStep]_vars

\* An archive without a file whose fetch failed and with another file of the
\* same folder.
C12_Witness ==
  \E p \in Procs :
    /\ Answered(p, "export", 200)
    /\ procs[p].skipped # {}
    /\ \E e \in procs[p].arch :
         ~e.dir /\ \E i \in procs[p].skipped :
                     files[i].parentFolder = files[e.id].parentFolder

\* C13: once the consumer has closed the stream of an export, the fetch in
\* flight may complete and no new fetch is issued: no step of the request
\* brings it to a blob download.
C13_NoFetchAfterClose ==
  [][\A p \in Procs :
       (procs[p].closed /\ procs'[p] # procs[p])
       => procs'[p].pc # "ex_download"]_vars

\* C14: in every state, also while a creation overlaps with the permanent
\* deletion of its parent folder, every document with a parentFolder names a
\* document that exists, is a folder and has the same owner.
C14_ParentIsOwnFolder ==
  \A i \in DOMAIN files :
    files[i].parentFolder # NULL
    => /\ files[i].parentFolder \in DOMAIN files
       /\ files[files[i].parentFolder].isFolder
       /\ files[files[i].parentFolder].owner = files[i].owner

\* Following parentFolder from x in the collection F comes to null within n
\* hops.
RECURSIVE ReachesNull(_, _, _)
ReachesNull(F, x, n) ==
  \/ x = NULL
  \/ /\ n > 0
     /\ x \in DOMAIN F
     /\ ReachesNull(F, F[x].parentFolder, n - 1)

\* The documents on the chain of parents of x that exist, x not included.
RECURSIVE Ancestors(_, _, _)
Ancestors(F, x, n) ==
  IF n = 0 \/ x \notin DOMAIN F \/ F[x].parentFolder = NULL THEN {}
  ELSE {F[x].parentFolder} \cup Ancestors(F, F[x].parentFolder, n - 1)

\* C15: in every state, following parentFolder from any document comes to
\* null after finitely many hops (at most as many as there are documents):
\* no document is its own ancestor and no chain of parents is cyclic.
C15_ParentChainEndsAtNull ==
  \A i \in DOMAIN files :
    /\ ReachesNull(files, i, Cardinality(DOMAIN files))
    /\ i \notin Ancestors(files, i, Cardinality(DOMAIN files))

\* C16: with requests that do not overlap, in every state no two folder
\* documents that are not deleted have the same owner, parentFolder and name.
C16_LiveFoldersUnique ==
  \A i, j \in DOMAIN files :
    (SameFolderKey(i, j) /\ ~files[i].isDeleted /\ ~files[j].isDeleted) => i = j

\* A folder has been restored from the trash while its owner has another
\* folder of the same name under another parent.
C16_Witness ==
  \E p \in Procs :
    /\ Answered(p, "restore", 200)
    /\ pre.files[procs[p].id].isDeleted
    /\ files[procs[p].id].isFolder
    /\ \E j \in DOMAIN files \ {procs[p].id} :
         /\ files[j].isFolder
         /\ files[j].owner = files[procs[p].id].owner
         /\ files[j].name = files[procs[p].id].name
         /\ files[j].parentFolder # files[procs[p].id].parentFolder

\* C17: in every state, also while share toggles of one document overlap,
\* a document has a shareToken exactly when it is shared.
C17_TokenIffShared ==
  \A i \in DOMAIN files : (files[i].shareToken # NULL) <=> files[i].isShared

\* Two share toggles of one document overlap: both loaded it unshared and
\* drew a token each, one has saved and been answered, the other is about
\* to save.
C17_Witness ==
  \E p, q \in Procs :
    /\ Answered(p, "toggleShare", 200)
    /\ procs[p].token # NULL
    /\ procs[q].op = "toggleShare" /\ procs[q].pc = "save"
    /\ procs[q].id = procs[p].id
    /\ procs[q].doc.isShared
    /\ procs[q].doc.shareToken # procs[p].token
    /\ files[procs[p].id].shareToken = procs[p].token

\* C18: in every state, also while a softDelete and a restore of one
\* document overlap, a document has a deletedAt exactly when it is deleted.
C18_DeletedAtIffDeleted ==
  \A i \in DOMAIN files : (files[i].deletedAt # NULL) <=> files[i].isDeleted

\* C19: the path of every document is "/" and its stored (trimmed) name at
\* the root, and the path of its parent, "/" and its stored name under a
\* parent, whatever whitespace the name came with.
C19_PathFromStoredName ==
  \A i \in DOMAIN files :
    IF files[i].parentFolder = NULL
    THEN files[i].path = RootPath(files[i].name)
    ELSE files[i].parentFolder \in DOMAIN files
         => files[i].path = ChildPath(files[files[i].parentFolder].path,
                                      files[i].name)

\* C20: a listing in the default view with parent p (null for the root) is
\* answered with exactly the caller's documents that are not deleted and
\* have parentFolder p.
C20_DefaultListingExact ==
  \A p \in Procs :
    (Answered(p, "list", 200) /\ procs[p].view = "default")
    => procs[p].out = {i \in DOMAIN pre.files :
                         /\ pre.files[i].owner = procs[p].user
                         /\ ~pre.files[i].isDeleted
                         /\ pre.files[i].parentFolder = procs[p].id}

\* The scenario: a root folder holds an uploaded file, and the listing of
\* the folder is exactly the file (the root listing being exactly the
\* folder).
C20_Witness ==
  \E p \in Procs :
    /\ Answered(p, "list", 200) /\ procs[p].view = "default"
    /\ procs[p].id \in DOMAIN files
    /\ files[procs[p].id].isFolder /\ files[procs[p].id].parentFolder = NULL
    /\ \E f \in DOMAIN files :
         /\ procs[p].out = {f}
         /\ ~files[f].isFolder
         /\ files[f].parentFolder = procs[p].id
    /\ ListQuery(procs[p].user, "default", NULL) = {procs[p].id}

\* C21: a listing in the default or the starred view is answered with no
\* document below a folder that is in the trash: after the softDelete of a
\* folder its descendants are out of the live views, as they are in the
\* trash view.
C21_NoListedEntryBelowTrash ==
  \A p \in Procs :
    (Answered(p, "list", 200) /\ procs[p].view \in {"default", "starred"})
    => \A i \in procs[p].out :
         \A a \in Ancestors(pre.files, i, Cardinality(DOMAIN pre.files)) :
           a \in DOMAIN pre.files => ~pre.files[a].isDeleted

\* C22: a share token is resolved to no document below a folder that is in
\* the trash: the softDelete of a folder withdraws the public access to the
\* shared documents of its subtree.
C22_NoSharedEntryBelowTrash ==
  \A p \in Procs :
    Answered(p, "resolve", 200)
    => \A i \in procs[p].out :
         \A a \in Ancestors(pre.files, i, Cardinality(DOMAIN pre.files)) :
           a \in DOMAIN pre.files => ~pre.files[a].isDeleted

\* A step that removes a folder document finds no document with that folder
\* as its parentFolder, and the target of a permanent deletion is removed by
\* the step that answers the request.
C23_RemovalStep ==
  /\ \A i \in DOMAIN files \ DOMAIN files' :
       files[i].isFolder => \A j \in DOMAIN files : files[j].parentFolder # i
  /\ \A p \in Procs :
       (/\ procs[p].op = "permanentDelete"
        /\ procs[p].id \in DOMAIN files \ DOMAIN files')
       => /\ procs[p].pc = "pd_final" /\ procs'[p].pc = "done"
          /\ Below(files, {procs[p].id}) = {procs[p].id}

\* C23: a permanentDelete that runs alone removes documents in post-order:
\* when a folder document is removed no document has it as parentFolder,
\* and the target folder's document is the last one removed.
C23_PostOrder == [][C23_RemovalStep]_vars

\* A folder that held a subfolder with a document of its own has been
\* deleted for good.
C23_Witness ==
  \E p \in Procs :
    /\ Answered(p, "permanentDelete", 200)
    /\ \E d \in Descendants(pre.files, procs[p].id) :
         /\ pre.files[d].isFolder
         /\ Descendants(pre.files, d) # {}
    /\ Below(pre.files, {procs[p].id}) \cap DOMAIN files = {}

\* A step that removes the document of a file comes after the removal of
\* its blob was asked for: the blob is gone, or its removal has failed.
C24_BlobStep ==
  \A i \in DOMAIN files \ DOMAIN files' :
    (~files[i].isFolder /\ files[i].supabasePath # NULL)
    => \E p \in Procs :
         /\ procs[p].op = "permanentDelete"
         /\ procs'[p] # procs[p]
         /\ \/ files[i].supabasePath \notin blobs
            \/ files[i].supabasePath \in procs[p].failed

\* When a permanent deletion in which no blob removal failed has been
\* answered, no blob of a removed document is left in the bucket.
C24_NoBlobLeft ==
  \A p \in Procs :
    (Answered(p, "permanentDelete", 200) /\ procs[p].failed = {})
    => \A i \in Below(pre.files, {procs[p].id}) :
         pre.files[i].supabasePath \notin blobs

\* C24: a permanentDelete asks for the removal of the blob of every file
\* document before it removes the document, so that when every blob removal
\* succeeds no blob of a removed document remains.
C24_BlobRemovedBeforeRecord == [](C24_NoBlobLeft) /\ [][C24_BlobStep]_vars

\* A folder with two files has been deleted for good and both blobs are
\* gone with the documents.
C24_Witness ==
  \E p \in Procs :
    /\ Answered(p, "permanentDelete", 200)
    /\ procs[p].failed = {}
    /\ pre.files[procs[p].id].isFolder
    /\ \E i, j \in Descendants(pre.files, procs[p].id) :
         /\ i # j
         /\ {pre.files[i].supabasePath, pre.files[j].supabasePath}
              \subseteq pre.blobs \ blobs

\* C25: every export that has begun to stream eventually ends its response:
\* the archive is finalized, or after a fatal error in the walk the stream
\* is ended.
C25_StreamEnds ==
  \A p \in Procs :
    (procs[p].pc \in {"ex_find", "ex_download", "ex_finalize"})
    ~> (procs[p].pc = "done")

\* C26: with every awaited call returning, a permanentDelete that has begun
\* its work comes to its answer: the acknowledgement (200) or the reported
\* failure (500).
C26_PermanentDeleteTerminates ==
  \A p \in Procs :
    (procs[p].pc \in {"pd_blob", "pd_find", "pd_item_blob", "pd_item_del",
                      "pd_final"})
    ~> (/\ procs[p].pc = "done"
        /\ procs[p].op = "permanentDelete"
        /\ procs[p].status \in {200, 500})

\* The permanent deletion of a folder that held a subfolder with a file has
\* been acknowledged.
C26_Witness ==
  \E p \in Procs :
    /\ Answered(p, "permanentDelete", 200)
    /\ \E d \in Descendants(pre.files, procs[p].id) :
         /\ pre.files[d].isFolder
         /\ \E f \in Descendants(pre.files, d) : ~pre.files[f].isFolder
    /\ files = <<>>

\* What the caller gets: the status and the body of the answer.
ResponseOf(r) ==
  [status |-> r.status, msg |-> r.msg, out |-> r.out, token |-> r.token,
   url |-> r.url]

FoldersNamed(F, u, parent, name) ==
  {i \in DOMAIN F : /\ F[i].isFolder
                     /\ F[i].owner = u
                     /\ F[i].parentFolder = parent
                     /\ F[i].name = Trim(name)}

\* C28: a createFolder with a name that is not blank and a parent that is
\* the root or a folder of the caller is answered with the duplicate-name
\* error exactly when a folder with the same owner, parent and trimmed name
\* exists, deleted or not, and is answered 201 otherwise.
C28_TrashedFolderBlocksName ==
  \A p \in Procs :
    LET r == procs[p] IN
    (/\ r.pc = "done" /\ r.op = "createFolder"
     /\ Trim(r.name) # <<>>
     /\ r.id # NULL => /\ r.id \in DOMAIN pre.files
                       /\ pre.files[r.id].isFolder
                       /\ pre.files[r.id].owner = r.user)
    => IF FoldersNamed(pre.files, r.user, r.id, r.name) # {}
       THEN r.status = 400 /\ r.msg = "exists" /\ files = pre.files
       ELSE r.status = 201

\* A createFolder has been refused because of a folder that is in the trash.
C28_Witness ==
  \E p \in Procs :
    /\ Answered(p, "createFolder", 400)
    /\ procs[p].msg = "exists"
    /\ FoldersNamed(files, procs[p].user, procs[p].id, procs[p].name) # {}
    /\ \A i \in FoldersNamed(files, procs[p].user, procs[p].id, procs[p].name) :
         files[i].isDeleted

\* C29: softDelete and restore leave isShared and shareToken as they were.
\* The token of a shared document finds nothing once the document is soft
\* deleted and finds the document again, the same token, once it is
\* restored; a resolved token is the stored token of a document that is not
\* deleted.
C29_TrashKeepsShareToken ==
  \A p \in Procs :
    LET r == procs[p] IN
    /\ (r.pc = "done" /\ r.op \in {"softDelete", "restore"} /\ r.status = 200)
       => /\ files[r.id].isShared = pre.files[r.id].isShared
          /\ files[r.id].shareToken = pre.files[r.id].shareToken
          /\ files[r.id].isShared
             => FindShared(files[r.id].shareToken)
                  = IF r.op = "restore" THEN r.id ELSE NULL
    /\ Answered(p, "resolve", 200)
       => \A e \in r.out : /\ files[e].shareToken = r.token
                            /\ ~files[e].isDeleted

\* A shared document has been restored from the trash with the token it had.
C29_Witness ==
  \E p \in Procs :
    /\ Answered(p, "restore", 200)
    /\ pre.files[procs[p].id].isDeleted
    /\ pre.files[procs[p].id].isShared
    /\ files[procs[p].id].shareToken # NULL
    /\ FindShared(files[procs[p].id].shareToken) = procs[p].id

\* C30: a toggle is atomic on its document.  The save() of a toggle that is
\* answered 200 leaves the flag the opposite of what the store held just
\* before it, so that n answered toggles of one kind, overlapping or not,
\* leave the flag flipped n times; and a share link in the answer names the
\* token that this save() stored.
C30_ToggleFlipsStoredFlag ==
  [][\A p \in Procs :
       LET r == procs[p] IN
       (/\ r.pc = "save" /\ r.op \in {"toggleStar", "toggleShare"}
        /\ procs'[p].pc = "done" /\ procs'[p].status = 200
        /\ r.id \in DOMAIN files)
       => /\ r.op = "toggleStar"
             => files'[r.id].isStarred = ~files[r.id].isStarred
          /\ r.op = "toggleShare"
             => /\ files'[r.id].isShared = ~files[r.id].isShared
                /\ files'[r.id].isShared
                   => /\ procs'[p].token # NULL
                      /\ procs'[p].token = files'[r.id].shareToken]_vars

====
